---- MODULE Spec2Model ----
(***************************************************************************)
(* A model of the handler-composition engine of src/daisugi/daisugi.ts.    *)
(*                                                                         *)
(* The factory state (the pipelines' `handlers` arrays, the shared         *)
(* registry `globalHandlersByName`, each toolkit's call-scoped slot) is    *)
(* built by entrySequenceOf / sequenceOf.  An invocation is executed by a  *)
(* small abstract machine: `ctl` is the function about to run (or the      *)
(* value / exception just produced), `stack` are the suspended callers,    *)
(* `promises` and `microtasks` are the JavaScript promise heap and job     *)
(* queue, `asyncs` the bodies of async user handlers that are suspended on *)
(* an await.  User handlers are abstract: what a handler does when it runs *)
(* (return a value, return a StopPropagation value, raise Abort, raise an  *)
(* error, continue with toolkit.next, jump) is chosen when it starts.      *)
(* Spec explores the factory over OwnHandlers with sub-chains and a        *)
(* registered name; SpecToolkit explores a factory of toolkit handlers,    *)
(* async ones included, whose bodies call the successor up to twice and    *)
(* read toolkit.next / toolkit.abort after an await.  `log` records each   *)
(* start of a user handler and each toolkit call or read it makes.         *)
(* An async user handler returns a pending promise and runs its body when  *)
(* its await completes (Resume).  The factory is created without           *)
(* decorators (daisugi()'s default), so decoratedUserHandler is the user   *)
(* handler.  A promise resolved with a settled promise takes its state at  *)
(* once; the extra job the platform uses for that is not modelled.         *)
(***************************************************************************)
EXTENDS Naturals, Sequences, FiniteSets, TLC

\* Bound: the number of wrapped handlers of all pipelines of the factory.
MaxHandlers == 3
\* Bound: the number of jumps the handlers of one invocation make.
MaxJumps == 1
\* Bound: the number of wrapped handlers of the factory of SpecToolkit.
MaxToolkitHandlers == 2

VARIABLES
  pipelines,             \* the pipelines built so far: [entry, handlers]
  globalHandlersByName,  \* the registry: name -> wrapped handler (or NoRef)
  ctl,                   \* the machine's control: a call to run or an outcome
  stack,                 \* the suspended callers, innermost last
  promises,              \* the promise heap
  microtasks,            \* the promise job queue
  asyncs,                \* async user handlers suspended on an await
  result,                \* what the caller of the entry point got
  call,                  \* the invocation in flight: entry pipeline and arguments
  log                    \* observation: the user handlers run, in order

vars == <<pipelines, globalHandlersByName, ctl, stack, promises, microtasks,
          asyncs, result, call, log>>

----------------------------------------------------------------------------
\* Values.  Every value is a record [t, h, a]: a tag, a reference and a
\* sequence of values, so that any two values can be compared.

NoRef == <<0, 0>>
NoName == ""
Names == {"x"}

abortExceptionCode == "DAISUGI:ABORT"
jumpExceptionCode == "DAISUGI:JUMP"
stopPropagationExceptionCode == "DAISUGI:STOP_PROPAGATION"

Null == [t |-> "null", h |-> NoRef, a |-> <<>>]
TypeError == [t |-> "TypeError", h |-> NoRef, a |-> <<>>]
\* The i-th argument the caller passes to the entry point.
Arg(i) == [t |-> "arg", h |-> <<0, i>>, a |-> <<>>]
\* The value user handler w computes from its arguments.
Apply(w, args) == [t |-> "ret", h |-> w, a |-> args]
\* The payload user handler w gives to abortWith / stopPropagationWith.
Payload(w) == [t |-> "R", h |-> w, a |-> <<>>]
\* The arguments user handler w gives to jumpTo.
JumpArgs(w) == <<[t |-> "A", h |-> w, a |-> <<>>]>>
\* The arguments user handler w gives to toolkit.nextWith.
NextArgs(w) == <<[t |-> "N", h |-> w, a |-> <<>>]>>
\* The error user handler w raises.
UserError(w) == [t |-> "Error", h |-> w, a |-> <<>>]
PromiseRef(i) == [t |-> "promise", h |-> <<i, 0>>, a |-> <<>>]
IsPromise(v) == v.t = "promise"
PromiseId(v) == v.h[1]

\* throw { code: abortExceptionCode, result }
abortWith(r) == [t |-> abortExceptionCode, h |-> NoRef, a |-> <<r>>]
\* return { code: stopPropagationExceptionCode, result }
stopPropagationWith(r) == [t |-> stopPropagationExceptionCode, h |-> NoRef, a |-> <<r>>]
\* throw { code: jumpExceptionCode, handler: decorateWithExceptionCapture(target), args }
jumpException(target, args) == [t |-> jumpExceptionCode, h |-> target, a |-> args]

IsSignal(v) == v.t \in {abortExceptionCode, jumpExceptionCode, stopPropagationExceptionCode}

----------------------------------------------------------------------------
\* User handlers, as the application hands them to the factory.

UserHandler(async, injectToolkit, name, sub) ==
  [async |-> async, injectToolkit |-> injectToolkit, name |-> name, sub |-> sub]

\* The handlers an application writes itself.
OwnHandlers ==
  { UserHandler(FALSE, FALSE, NoName, 0),    \* a plain function
    UserHandler(TRUE, FALSE, NoName, 0),     \* an async function
    UserHandler(FALSE, TRUE, NoName, 0),     \* a function with meta.injectToolkit
    UserHandler(FALSE, FALSE, "x", 0) }      \* a function with meta.name = "x"

\* The handlers of an application that uses the toolkit from async functions.
ToolkitHandlers ==
  { UserHandler(FALSE, FALSE, NoName, 0),    \* a plain function
    UserHandler(FALSE, TRUE, NoName, 0),     \* a function with meta.injectToolkit
    UserHandler(TRUE, TRUE, NoName, 0) }     \* an async function with meta.injectToolkit

\* A chain returned by sequenceOf is a plain function without meta.
SubChains(ps) ==
  { UserHandler(FALSE, FALSE, NoName, p) : p \in {q \in DOMAIN ps : ~ps[q].entry} }

\* duck type validation: handler.constructor.name === 'AsyncFunction'
isFnAsync(userHandler) == userHandler.async

\* What a user handler may do when it runs; lg is the invocation's log.  A
\* function with the toolkit returns, continues, aborts or jumps; an async
\* function with the toolkit returns, continues, makes two toolkit calls in
\* a row or reads toolkit.abort.
Jumps(lg) == Cardinality({i \in DOMAIN lg : lg[i].e = "start" /\ lg[i].b = "jump"})

Behaviours(userHandler, lg) ==
  IF userHandler.injectToolkit /\ userHandler.async
    THEN {"return", "next", "twice", "toolkitAbort"}
  ELSE IF userHandler.injectToolkit
    THEN {"return", "next", "abort"} \cup (IF Jumps(lg) < MaxJumps THEN {"jump"} ELSE {})
    ELSE {"return", "stop", "abort", "error"}

----------------------------------------------------------------------------
\* Building a pipeline.

Handler(p, w) == p[w[1]].handlers[w[2]]

\* Mutant: the successor is looked up one position too far.
nextHandlerIndex_skip(i) == i + 2

\* const nextHandlerIndex = handlers.length + 1 (0-based: the position after its own)
nextHandlerIndex(i) == i + 1

\* The wrapped handler after w in w's own `handlers` array, or NoRef.
nextHandler(ps, w) ==
  IF nextHandlerIndex(w[2]) \in DOMAIN ps[w[1]].handlers
    THEN <<w[1], nextHandlerIndex(w[2])>>
    ELSE NoRef

\* Mutant: a name already registered is kept (first write wins).
register_first(registry, name, w) ==
  IF name # NoName /\ registry[name] = NoRef THEN [registry EXCEPT ![name] = w] ELSE registry

\* if (name) globalHandlersByName[name] = handler
register(registry, name, w) ==
  IF name # NoName THEN [registry EXCEPT ![name] = w] ELSE registry

\* Mutant: an async handler leaves its predecessors as they are.
markPrevious_none(handlers, isAsync) == handlers

\* Mark all previous handlers as async.
markPrevious(handlers, isAsync) ==
  IF isAsync
    THEN [i \in DOMAIN handlers |-> [handlers[i] EXCEPT !.shouldBeTreatAsAsync = isAsync]]
    ELSE handlers

\* decorateHandler followed by the push of createPipeline.add: the new state
\* of the pipeline's array and of the registry.  p is the pipeline's index.
decorateHandler(userHandler, handlers, registry, p) ==
  LET isAsync == isFnAsync(userHandler)
      handler == [user |-> userHandler,
                  isAsync |-> isAsync,
                  shouldBeTreatAsAsync |-> isAsync,
                  toolkitArgs |-> <<>>]
  IN [handlers |-> Append(markPrevious(handlers, isAsync), handler),
      registry |-> register(registry, userHandler.name, <<p, Len(handlers) + 1>>)]

RECURSIVE add(_, _, _, _)
\* createPipeline.add: userHandlers.forEach(decorate and push)
add(userHandlers, handlers, registry, p) ==
  IF userHandlers = <<>>
    THEN [handlers |-> handlers, registry |-> registry]
    ELSE LET s == decorateHandler(Head(userHandlers), handlers, registry, p)
         IN add(Tail(userHandlers), s.handlers, s.registry, p)

RECURSIVE SumLen(_)
SumLen(ps) == IF ps = <<>> THEN 0 ELSE Len(Head(ps).handlers) + SumLen(Tail(ps))

\* The lists of user handlers a pipeline can be built from within the bound.
Chains(ps) ==
  LET U == OwnHandlers \cup SubChains(ps)
      room == MaxHandlers - SumLen(ps)
  IN UNION { [1..n -> U] : n \in 1..room }

\* The lists of user handlers an application that uses the toolkit from
\* async functions builds a pipeline from.
ToolkitChains(ps) ==
  UNION { [1..n -> ToolkitHandlers] : n \in 1..(MaxToolkitHandlers - SumLen(ps)) }

----------------------------------------------------------------------------
\* The promise heap (the platform's Promise, as the engine uses it):
\* heap = [ps, mq], ps the promises [st, v, rs] and mq the job queue.
\* A reaction [kind, w, d] of promise i settles the derived promise d:
\*   "then"  : i.then(wrapped handler w)          (daisugi.ts lines 135, 143)
\*   "catch" : i.catch(captureException)          (daisugi.ts lines 174, 178)
\*   "adopt" : d was resolved with promise i and follows it

Pending == [st |-> "pending", v |-> Null, rs |-> <<>>]
Reaction(kind, w, d) == [kind |-> kind, w |-> w, d |-> d]
Job(kind, w, v, d) == [kind |-> kind, w |-> w, v |-> v, d |-> d]

RECURSIVE Settle(_, _, _, _)
RECURSIVE React(_, _, _, _)
\* Promise i becomes fulfilled or rejected with v; its reactions fire.
Settle(heap, i, st, v) ==
  React([heap EXCEPT !.ps[i] = [st |-> st, v |-> v, rs |-> <<>>]],
        heap.ps[i].rs, st, v)

\* A callback that applies is queued as a job; otherwise the settlement
\* passes through to the derived promise.
React(heap, rs, st, v) ==
  IF rs = <<>> THEN heap
  ELSE LET r == Head(rs)
           applies == \/ r.kind = "then" /\ st = "fulfilled"
                      \/ r.kind = "catch" /\ st = "rejected"
           h1 == IF applies
                   THEN [heap EXCEPT !.mq = Append(@, Job(r.kind, r.w, v, r.d))]
                   ELSE Settle(heap, r.d, st, v)
       IN React(h1, Tail(rs), st, v)

\* i.then(w) or i.catch(captureException): the derived promise is
\* Len(heap.ps) + 1.
Then(heap, i, kind, w) ==
  LET d == Len(heap.ps) + 1
      h0 == [heap EXCEPT !.ps = Append(@, Pending)]
      r == Reaction(kind, w, d)
  IN IF h0.ps[i].st = "pending"
       THEN [h0 EXCEPT !.ps[i].rs = Append(@, r)]
       ELSE React(h0, <<r>>, h0.ps[i].st, h0.ps[i].v)

\* Promise d is resolved with v: a promise is followed, a value fulfils.
Resolve(heap, d, v) ==
  IF IsPromise(v)
    THEN LET q == heap.ps[PromiseId(v)]
         IN IF q.st = "pending"
              THEN [heap EXCEPT !.ps[PromiseId(v)].rs = Append(@, Reaction("adopt", NoRef, d))]
              ELSE Settle(heap, d, q.st, q.v)
    ELSE Settle(heap, d, "fulfilled", v)

\* Promise.resolve(v): v itself when it is a promise, else a promise
\* fulfilled with v.  [heap, id]
PromiseResolve(heap, v) ==
  IF IsPromise(v)
    THEN [heap |-> heap, id |-> PromiseId(v)]
    ELSE [heap |-> [heap EXCEPT !.ps = Append(@, [st |-> "fulfilled", v |-> v, rs |-> <<>>])],
          id |-> Len(heap.ps) + 1]

----------------------------------------------------------------------------
\* The machine.

Idle == [op |-> "idle", w |-> NoRef, args |-> <<>>, v |-> Null]
\* the function returned by decorateWithExceptionCapture(w), called with args
CallEntry(w, args) == [op |-> "entry", w |-> w, args |-> args, v |-> Null]
\* the wrapped handler w (decorateHandler's `handler`), called with args
CallHandler(w, args) == [op |-> "handler", w |-> w, args |-> args, v |-> Null]
\* decoratedUserHandler of w, called with args
CallUser(w, args) == [op |-> "user", w |-> w, args |-> args, v |-> Null]
\* captureException(error)
CallCapture(error) == [op |-> "capture", w |-> NoRef, args |-> <<>>, v |-> error]
Return(v) == [op |-> "return", w |-> NoRef, args |-> <<>>, v |-> v]
Throw(v) == [op |-> "throw", w |-> NoRef, args |-> <<>>, v |-> v]

Frame(k, w, d) == [k |-> k, w |-> w, d |-> d]

NoResult == [k |-> "none", v |-> Null]
NoCall == [e |-> 0, args |-> <<>>]

Init ==
  /\ pipelines = <<>>
  /\ globalHandlersByName = [n \in Names |-> NoRef]
  /\ ctl = Idle
  /\ stack = <<>>
  /\ promises = <<>>
  /\ microtasks = <<>>
  /\ asyncs = {}
  /\ result = NoResult
  /\ call = NoCall
  /\ log = <<>>

runVars == <<ctl, stack, promises, microtasks, asyncs, result, call, log>>

\* daisugi().entrySequenceOf(userHandlers) / sequenceOf(userHandlers)
Build(entry, userHandlers) ==
  LET s == add(userHandlers, <<>>, globalHandlersByName, Len(pipelines) + 1)
  IN /\ call = NoCall
     /\ pipelines' = Append(pipelines, [entry |-> entry, handlers |-> s.handlers])
     /\ globalHandlersByName' = s.registry
     /\ UNCHANGED runVars

entrySequenceOf ==
  /\ call = NoCall
  /\ \E userHandlers \in Chains(pipelines) : Build(TRUE, userHandlers)

sequenceOf ==
  /\ call = NoCall
  /\ \E userHandlers \in Chains(pipelines) : Build(FALSE, userHandlers)

\* The argument lists the application calls an entry point with: two
\* positional arguments, so that the first handler's `...args` and the later
\* handlers' single argument differ; the first argument is an ordinary value
\* or a StopPropagation value.
ArgLists == { <<Arg(1), Arg(2)>>, <<stopPropagationWith(Arg(1)), Arg(2)>> }

\* The function sequenceOf returned is a handler of some chain.
Embedded(q) ==
  \E p \in DOMAIN pipelines :
    \E k \in DOMAIN pipelines[p].handlers : pipelines[p].handlers[k].user.sub = q

\* The application calls the function entrySequenceOf returned.  It does so
\* when every function it got from sequenceOf is a handler of a chain: a
\* chain built with sequenceOf that no chain holds takes part in an
\* invocation only through the registry, exactly as the same chain built with
\* entrySequenceOf does (decorateHandler is the same for both).
Invoke ==
  \E e \in DOMAIN pipelines, args \in ArgLists :
    /\ pipelines[e].entry
    /\ call = NoCall
    /\ \A q \in DOMAIN pipelines : pipelines[q].entry \/ Embedded(q)
    /\ call' = [e |-> e, args |-> args]
    /\ ctl' = CallEntry(<<e, 1>>, args)
    /\ stack' = <<Frame("top", NoRef, 0)>>
    /\ UNCHANGED <<pipelines, globalHandlersByName, promises, microtasks, asyncs, result, log>>

\* How the function returned by decorateWithExceptionCapture(w) calls w.
decorateWithExceptionCapture(ps, w) ==
  IF Handler(ps, w).isAsync THEN "catch"
  ELSE IF Handler(ps, w).shouldBeTreatAsAsync THEN "resolveCatch"
  ELSE "try"

\* The body of the function decorateWithExceptionCapture returns.  Reading
\* __meta__ of an undefined handler raises a TypeError.
Entry ==
  /\ ctl.op = "entry"
  /\ IF ctl.w = NoRef
       THEN /\ ctl' = Throw(TypeError)
            /\ stack' = stack
       ELSE /\ ctl' = CallHandler(ctl.w, ctl.args)
            /\ stack' = Append(stack, Frame(decorateWithExceptionCapture(pipelines, ctl.w), NoRef, 0))
  /\ UNCHANGED <<pipelines, globalHandlersByName, promises, microtasks, asyncs, result, call, log>>

\* Mutant: the successor is always called at once with what the user
\* handler returned, a pending promise included.
successorFrame_inline(ps, w) == "callNext"

\* How wrapped handler w hands the user handler's result to its successor.
successorFrame(ps, w) ==
  IF Handler(ps, w).isAsync THEN "thenNext"
  ELSE IF Handler(ps, nextHandler(ps, w)).shouldBeTreatAsAsync THEN "resolveThenNext"
  ELSE "callNext"

\* args[0]?.code === stopPropagationExceptionCode
isStopPropagation(args) ==
  Len(args) >= 1 /\ args[1].t = stopPropagationExceptionCode

\* Mutant: a handler with the toolkit is followed by its successor as a
\* plain handler is.
toolkitFrames_follow(ps, w) ==
  IF nextHandler(ps, w) # NoRef
    THEN <<Frame(successorFrame(ps, w), nextHandler(ps, w), 0)>>
    ELSE <<>>

\* return decoratedUserHandler(...args, toolkit): the wrapped handler of a
\* handler with the toolkit does nothing with what the user handler returns.
toolkitFrames(ps, w) == <<>>

\* Mutant: an invocation with the toolkit also marks the handler as one to
\* be treated as async.
defineToolkit_marks(ps, w, args) ==
  [ps EXCEPT ![w[1]].handlers[w[2]].toolkitArgs = args,
             ![w[1]].handlers[w[2]].shouldBeTreatAsAsync = TRUE]

\* Object.defineProperty(toolkit, 'next' / 'abort', { get() { ... args ... } })
defineToolkit(ps, w, args) ==
  [ps EXCEPT ![w[1]].handlers[w[2]].toolkitArgs = args]

\* decorateHandler's `handler`
WrappedHandler ==
  /\ ctl.op = "handler"
  /\ LET w == ctl.w
         args == ctl.args
         h == Handler(pipelines, w)
     IN IF isStopPropagation(args)
          THEN /\ ctl' = Return(args[1].a[1])
               /\ UNCHANGED <<stack, pipelines>>
          ELSE IF h.user.injectToolkit
            THEN /\ pipelines' = defineToolkit(pipelines, w, args)
                 /\ ctl' = CallUser(w, args)
                 /\ stack' = stack \o toolkitFrames(pipelines, w)
          ELSE IF nextHandler(pipelines, w) = NoRef
            THEN /\ ctl' = CallUser(w, args)
                 /\ UNCHANGED <<stack, pipelines>>
          ELSE /\ ctl' = CallUser(w, args)
               /\ stack' = Append(stack, Frame(successorFrame(pipelines, w), nextHandler(pipelines, w), 0))
               /\ pipelines' = pipelines
  /\ UNCHANGED <<globalHandlersByName, promises, microtasks, asyncs, result, call, log>>

\* Mutant: nextWith calls its successor without looking whether there is one.
nextWith_unchecked(ps, w, args) ==
  IF nextHandler(ps, w) # NoRef
    THEN CallHandler(nextHandler(ps, w), args)
    ELSE Throw(TypeError)

\* toolkit.nextWith(...args)
nextWith(ps, w, args) ==
  IF nextHandler(ps, w) # NoRef
    THEN CallHandler(nextHandler(ps, w), args)
    ELSE Return(Null)

\* toolkit.jumpTo(name, ...args)
jumpTo(registry, name, args) == Throw(jumpException(registry[name], args))

\* Mutant: every invocation has a toolkit of its own, whose next and abort
\* use the arguments of that invocation.
toolkitArgs_own(ps, w, args) == args

\* The `args` the getters of toolkit.next and toolkit.abort close over: those
\* of the invocation of wrapped handler w that defined the properties last.
\* args are the arguments of the invocation that reads.
toolkitArgs(ps, w, args) == Handler(ps, w).toolkitArgs

\* The body of user handler w doing b: the control it leaves.  The body of
\* "twice" reads toolkit.next first and goes on when that call returns.
\*   "return"       : return f(args)
\*   "stop"         : return stopPropagationWith(R)
\*   "abort"        : abortWith(R) / toolkit.abortWith(R)
\*   "error"        : throw E
\*   "next"         : return toolkit.next
\*   "toolkitAbort" : toolkit.abort
\*   "twice"        : toolkit.next; return toolkit.nextWith(N)
\*   "jump"         : toolkit.jumpTo("x", A)
Body(ps, registry, w, args, b) ==
  CASE b = "return" -> Return(Apply(w, args))
    [] b = "stop" -> Return(stopPropagationWith(Payload(w)))
    [] b = "abort" -> Throw(abortWith(Payload(w)))
    [] b = "error" -> Throw(UserError(w))
    [] b = "next" -> nextWith(ps, w, toolkitArgs(ps, w, args))
    [] b = "twice" -> nextWith(ps, w, toolkitArgs(ps, w, args))
    [] b = "toolkitAbort" -> Throw(abortWith(toolkitArgs(ps, w, args)[1]))
    [] b = "jump" -> jumpTo(registry, "x", JumpArgs(w))

\* An observation: s is the log index of the start of the invocation that
\* makes a toolkit call (0 for the other events).
Event(e, w, args, b) == [e |-> e, w |-> w, args |-> args, b |-> b, s |-> 0]
ToolkitCall(e, w, args, s) == [e |-> e, w |-> w, args |-> args, b |-> "", s |-> s]

\* The toolkit calls the body of w doing b makes when it starts: a read of
\* toolkit.next or toolkit.abort, with the arguments the getter uses.
BodyCalls(ps, w, args, b, s) ==
  IF b \in {"next", "twice"} THEN <<ToolkitCall("next", w, toolkitArgs(ps, w, args), s)>>
  ELSE IF b = "toolkitAbort" THEN <<ToolkitCall("abort", w, toolkitArgs(ps, w, args), s)>>
  ELSE <<>>

\* The frame of a body that goes on after its first call returned.
BodyFrames(w, b, s) == IF b = "twice" THEN <<Frame("userBody", w, s)>> ELSE <<>>

\* decoratedUserHandler(...args): a chain built by sequenceOf is its first
\* wrapped handler; an async function returns a pending promise and runs
\* its body when its await completes; a function runs its body.
User ==
  /\ ctl.op = "user"
  /\ LET w == ctl.w
         args == ctl.args
         u == Handler(pipelines, w).user
     IN IF u.sub # 0
          THEN /\ ctl' = CallHandler(<<u.sub, 1>>, args)
               /\ UNCHANGED <<promises, asyncs, log>>
               /\ stack' = stack
          ELSE \E b \in Behaviours(u, log) :
                 IF u.async
                   THEN /\ log' = Append(log, Event("start", w, args, b))
                        /\ promises' = Append(promises, Pending)
                        /\ asyncs' = asyncs \cup {[p |-> Len(promises) + 1, w |-> w, b |-> b,
                                                   args |-> args, s |-> Len(log) + 1]}
                        /\ ctl' = Return(PromiseRef(Len(promises) + 1))
                        /\ stack' = stack
                   ELSE /\ log' = Append(log, Event("start", w, args, b))
                                    \o BodyCalls(pipelines, w, args, b, Len(log) + 1)
                        /\ ctl' = Body(pipelines, globalHandlersByName, w, args, b)
                        /\ stack' = stack \o BodyFrames(w, b, Len(log) + 1)
                        /\ UNCHANGED <<promises, asyncs>>
  /\ UNCHANGED <<pipelines, globalHandlersByName, microtasks, result, call>>

\* The await of a suspended async user handler completes: its body runs.
Resume ==
  /\ ctl.op = "idle"
  /\ microtasks = <<>>
  /\ \E a \in asyncs :
       /\ asyncs' = asyncs \ {a}
       /\ stack' = <<Frame("asyncBody", a.w, a.p)>> \o BodyFrames(a.w, a.b, a.s)
       /\ ctl' = Body(pipelines, globalHandlersByName, a.w, a.args, a.b)
       /\ log' = log \o BodyCalls(pipelines, a.w, a.args, a.b, a.s)
  /\ UNCHANGED <<pipelines, globalHandlersByName, promises, microtasks, result, call>>

\* Mutant: a jump runs the user handler registered under the name alone,
\* not the wrapped handler of its position.
captureException_userOnly(error) ==
  IF error.t = abortExceptionCode THEN Return(error.a[1])
  ELSE IF error.t = jumpExceptionCode
    THEN IF error.h = NoRef THEN CallEntry(error.h, error.a) ELSE CallUser(error.h, error.a)
  ELSE Throw(error)

\* captureException(error)
captureException(error) ==
  IF error.t = abortExceptionCode THEN Return(error.a[1])
  ELSE IF error.t = jumpExceptionCode THEN CallEntry(error.h, error.a)
  ELSE Throw(error)

Capture ==
  /\ ctl.op = "capture"
  /\ ctl' = captureException(ctl.v)
  /\ UNCHANGED <<pipelines, globalHandlersByName, stack, promises, microtasks, asyncs, result, call, log>>

\* The frames that end the propagation of an exception: the try of the
\* interpreter, and the bottoms of a job, of an async body and of the call.
Catches(f) == f.k \in {"try", "job", "asyncBody", "top"}

RECURSIVE Unwind(_)
Unwind(st) ==
  IF st = <<>> \/ Catches(st[Len(st)]) THEN st ELSE Unwind(SubSeq(st, 1, Len(st) - 1))

Pop(st) == SubSeq(st, 1, Len(st) - 1)

Machine(c, st, heap, res, lg) ==
  [ctl |-> c, stack |-> st, heap |-> heap, result |-> res, log |-> lg]

\* A value v comes back to frame f (the stack below it is st).
ReturnTo(f, st, v, heap, res, lg) ==
  CASE f.k = "try" ->
         \* try { return handler(...args) }
         Machine(Return(v), st, heap, res, lg)
    [] f.k = "catch" ->
         \* return handler(...args).catch(captureException)
         IF IsPromise(v)
           THEN Machine(Return(PromiseRef(Len(heap.ps) + 1)), st,
                        Then(heap, PromiseId(v), "catch", NoRef), res, lg)
           ELSE Machine(Throw(TypeError), st, heap, res, lg)
    [] f.k = "resolveCatch" ->
         \* return Promise.resolve(handler(...args)).catch(captureException)
         LET r == PromiseResolve(heap, v)
         IN Machine(Return(PromiseRef(Len(r.heap.ps) + 1)), st,
                    Then(r.heap, r.id, "catch", NoRef), res, lg)
    [] f.k = "callNext" ->
         \* return nextHandler(decoratedUserHandler(...args))
         Machine(CallHandler(f.w, <<v>>), st, heap, res, lg)
    [] f.k = "thenNext" ->
         \* return decoratedUserHandler(...args).then(nextHandler)
         IF IsPromise(v)
           THEN Machine(Return(PromiseRef(Len(heap.ps) + 1)), st,
                        Then(heap, PromiseId(v), "then", f.w), res, lg)
           ELSE Machine(Throw(TypeError), st, heap, res, lg)
    [] f.k = "resolveThenNext" ->
         \* return Promise.resolve(decoratedUserHandler(...args)).then(nextHandler)
         LET r == PromiseResolve(heap, v)
         IN Machine(Return(PromiseRef(Len(r.heap.ps) + 1)), st,
                    Then(r.heap, r.id, "then", f.w), res, lg)
    [] f.k = "userBody" ->
         \* toolkit.next returned: return toolkit.nextWith(N)
         Machine(nextWith(pipelines, f.w, NextArgs(f.w)), st, heap, res,
                 Append(lg, ToolkitCall("nextWith", f.w, NextArgs(f.w), f.d)))
    [] f.k = "job" ->
         \* the callback of a then / catch returned: its promise is resolved
         Machine(Idle, st, Resolve(heap, f.d, v), res, lg)
    [] f.k = "asyncBody" ->
         \* the async function returned: its promise is resolved
         Machine(Idle, st, Resolve(heap, f.d, v),
                 res, Append(lg, Event("settle", f.w, <<v>>, "fulfilled")))
    [] f.k = "top" ->
         Machine(Idle, st, heap, [k |-> "return", v |-> v], lg)

\* An exception v reaches the catching frame f.
ThrowTo(f, st, v, heap, res, lg) ==
  CASE f.k = "try" ->
         \* catch (error) { return captureException(error) }
         Machine(CallCapture(v), st, heap, res, lg)
    [] f.k = "job" ->
         Machine(Idle, st, Settle(heap, f.d, "rejected", v), res, lg)
    [] f.k = "asyncBody" ->
         Machine(Idle, st, Settle(heap, f.d, "rejected", v),
                 res, Append(lg, Event("settle", f.w, <<v>>, "rejected")))
    [] f.k = "top" ->
         Machine(Idle, st, heap, [k |-> "throw", v |-> v], lg)

\* The running function returns or throws: its caller continues.
Complete ==
  /\ ctl.op \in {"return", "throw"}
  /\ LET st == IF ctl.op = "throw" THEN Unwind(stack) ELSE stack
         f == st[Len(st)]
         heap == [ps |-> promises, mq |-> microtasks]
         m == IF ctl.op = "throw"
                THEN ThrowTo(f, Pop(st), ctl.v, heap, result, log)
                ELSE ReturnTo(f, Pop(st), ctl.v, heap, result, log)
     IN /\ ctl' = m.ctl
        /\ stack' = m.stack
        /\ promises' = m.heap.ps
        /\ microtasks' = m.heap.mq
        /\ result' = m.result
        /\ log' = m.log
  /\ UNCHANGED <<pipelines, globalHandlersByName, asyncs, call>>

\* The job at the head of the queue runs: nextHandler(value) for a then,
\* captureException(reason) for a catch.
Microtask ==
  /\ ctl.op = "idle"
  /\ microtasks # <<>>
  /\ LET j == Head(microtasks)
     IN /\ microtasks' = Tail(microtasks)
        /\ stack' = <<Frame("job", NoRef, j.d)>>
        /\ ctl' = IF j.kind = "then" THEN CallHandler(j.w, <<j.v>>) ELSE CallCapture(j.v)
  /\ UNCHANGED <<pipelines, globalHandlersByName, promises, asyncs, result, call, log>>

\* Nothing of the invocation is left to run.
Quiescent == ctl.op = "idle" /\ microtasks = <<>> /\ asyncs = {}

\* The invocation is over; the application may build or call again.
Close ==
  /\ call # NoCall
  /\ Quiescent
  /\ ctl' = Idle
  /\ stack' = <<>>
  /\ promises' = <<>>
  /\ result' = NoResult
  /\ call' = NoCall
  /\ log' = <<>>
  /\ UNCHANGED <<pipelines, globalHandlersByName, microtasks, asyncs>>

Next ==
  \/ entrySequenceOf
  \/ sequenceOf
  \/ Invoke
  \/ Entry
  \/ WrappedHandler
  \/ User
  \/ Resume
  \/ Capture
  \/ Complete
  \/ Microtask
  \/ Close

Spec == Init /\ [][Next]_vars

\* The factory of an application that uses the toolkit from async functions.
entrySequenceOfToolkit ==
  \E userHandlers \in ToolkitChains(pipelines) : Build(TRUE, userHandlers)

NextToolkit ==
  \/ entrySequenceOfToolkit
  \/ Invoke
  \/ Entry
  \/ WrappedHandler
  \/ User
  \/ Resume
  \/ Capture
  \/ Complete
  \/ Microtask
  \/ Close

SpecToolkit == Init /\ [][NextToolkit]_vars

----------------------------------------------------------------------------
\* What the caller of the entry point observes.

EntryChain == pipelines[call.e].handlers
\* The invocation has run to its end.
Over == call # NoCall /\ Quiescent
Returned == result.k = "return"
ReturnedPending == Returned /\ IsPromise(result.v)
ResultPromise == promises[PromiseId(result.v)]
\* The caller got value v: returned, or as the resolution of the pending result.
GotValue(v) ==
  \/ Returned /\ ~IsPromise(result.v) /\ result.v = v
  \/ ReturnedPending /\ ResultPromise.st = "fulfilled" /\ ResultPromise.v = v
\* The caller got exception v: thrown, or as the rejection of the pending result.
GotSyncThrow(v) == result.k = "throw" /\ result.v = v
GotRejection(v) == ReturnedPending /\ ResultPromise.st = "rejected" /\ ResultPromise.v = v
GotException(v) == GotSyncThrow(v) \/ GotRejection(v)

Starts == {i \in DOMAIN log : log[i].e = "start"}
\* User handler w started (as event i of the log) doing b.
Did(i, b) == i \in Starts /\ log[i].b = b
StartedAfter(i, w) == \E j \in Starts : j > i /\ log[j].w = w
InEntryChain(w) == w[1] = call.e

\* C1: an Abort or Jump signal raised during an invocation of an entry point
\* never reaches the caller, neither thrown synchronously nor as the
\* rejection of the pending result.
C1_SignalNeverReachesCaller ==
  \A i \in Starts :
    /\ ~GotException(abortWith(Payload(log[i].w)))
    /\ \A target \in {NoRef} \cup {<<p, k>> : p \in DOMAIN pipelines, k \in 1..MaxHandlers} :
         ~GotException(jumpException(target, JumpArgs(log[i].w)))

\* C2: if handler k of the entry chain calls abortWith(R), the entry point's
\* result is R and none of the handlers k+1..N is invoked afterwards.
C2_AbortResolvesToPayload ==
  \A i \in Starts :
    (Over /\ Did(i, "abort") /\ InEntryChain(log[i].w)) =>
      /\ GotValue(Payload(log[i].w))
      /\ \A k \in DOMAIN EntryChain :
           k > log[i].w[2] => ~StartedAfter(i, <<call.e, k>>)

\* The registered target of a jump to "x".
Target == globalHandlersByName["x"]
\* Event j is the first start of a user handler after event i.
FirstStartAfter(i, j) == j \in Starts /\ j > i /\ \A m \in Starts : m > i => m >= j
LastStart(j) == j \in Starts /\ \A m \in Starts : m <= j

\* C3: if toolkit-injected handler k of the entry chain calls jumpTo("x", A)
\* and "x" is registered, the entry point's result is the result of invoking
\* the registered "x" with A (the target runs with A; when the target's chain
\* returns normally the caller gets its last value), and the handlers k+1..N
\* of the jumping chain are not invoked by the jump (other than as part of
\* the target's own chain).
C3_JumpResolvesToTarget ==
  \A i \in Starts :
    (Over /\ Did(i, "jump") /\ InEntryChain(log[i].w) /\ Target # NoRef) =>
      /\ \E j \in Starts :
           FirstStartAfter(i, j) /\ log[j].w = Target /\ log[j].args = JumpArgs(log[i].w)
      /\ (\A j \in Starts : j > i => log[j].b = "return") =>
           \E j \in Starts : LastStart(j) /\ j > i /\ GotValue(Apply(log[j].w, log[j].args))
      /\ \A k \in DOMAIN EntryChain :
           (k > log[i].w[2] /\ (Target[1] # call.e \/ k < Target[2])) =>
             ~StartedAfter(i, <<call.e, k>>)

\* The value of h_n(...h_2(h_1(args))) for the user handlers of chain e.
RECURSIVE Compose(_, _, _)
Compose(e, n, args) ==
  IF n = 1 THEN Apply(<<e, 1>>, args)
  ELSE Apply(<<e, n>>, <<Compose(e, n - 1, args)>>)

\* The entry chain holds only functions the application wrote, without
\* toolkit injection.
PlainChain ==
  \A k \in DOMAIN EntryChain : ~EntryChain[k].user.injectToolkit /\ EntryChain[k].user.sub = 0
AsyncPositions == {k \in DOMAIN EntryChain : EntryChain[k].user.async}
\* Every user handler started so far returns a value (it neither raises nor
\* returns a StopPropagation value).
AllReturn == \A i \in Starts : log[i].b = "return"
\* The number of user handlers started up to event i.
StartsUpTo(i) == Cardinality({j \in Starts : j <= i})

\* No control signal is in play: the call's first argument is no
\* StopPropagation value, and no user handler started so far returns a
\* StopPropagation value or raises Abort.
NoSignal ==
  /\ ~isStopPropagation(call.args)
  /\ \A i \in Starts : log[i].b \notin {"stop", "abort"}

\* What C4 says of a chain of N plain handlers of which exactly one is async.
OneAsyncKeepsOrder ==
  /\ AllReturn => result.k # "throw"
  /\ Returned => IsPromise(result.v)
  /\ (ReturnedPending /\ ResultPromise.st = "fulfilled") =>
       Cardinality(Starts) = Len(EntryChain)
  /\ \A i \in Starts : log[i].w = <<call.e, StartsUpTo(i)>>
  /\ \A i \in Starts :
       (log[i].w[2] - 1) \in AsyncPositions =>
         \E j \in 1..(i - 1) :
           log[j] = Event("settle", <<call.e, log[i].w[2] - 1>>, log[i].args, "fulfilled")

\* C4: in a chain of N plain handlers of which exactly one, k, is async, the
\* entry point returns a pending result, which resolves only after all N
\* handlers have run; the handlers start in the order 1..N, and handler k+1
\* starts only after the pending result of handler k has resolved.
C4_OneAsyncKeepsOrder ==
  (call # NoCall /\ PlainChain /\ Cardinality(AsyncPositions) = 1) =>
    OneAsyncKeepsOrder

\* C4, amended: the same, provided no control signal is in play (the first
\* argument is no StopPropagation value, no handler returns one or raises
\* Abort).
C4_OneAsyncKeepsOrderWithoutSignal ==
  (call # NoCall /\ PlainChain /\ Cardinality(AsyncPositions) = 1 /\ NoSignal) =>
    OneAsyncKeepsOrder

C4_Witness ==
  /\ Over /\ PlainChain /\ NoSignal /\ AllReturn
  /\ Len(EntryChain) >= 3
  /\ AsyncPositions = {2}
  /\ ReturnedPending /\ ResultPromise.st = "fulfilled"

\* What C5 says of a chain of N synchronous plain handlers: the call is the
\* composition h_N(...h_2(h_1(args))), which returns its value when every
\* handler returns and raises what a handler raises, the later handlers not
\* running.
SyncChainIsComposition ==
  /\ promises = <<>> /\ microtasks = <<>>
  /\ Len(log) <= Len(EntryChain)
  /\ \A i \in DOMAIN log :
       /\ log[i].e = "start"
       /\ log[i].w = <<call.e, i>>
       /\ log[i].args = IF i = 1 THEN call.args
                        ELSE <<Compose(call.e, i - 1, call.args)>>
       /\ i < Len(log) => log[i].b = "return"
  /\ ctl.op = "idle" =>
       /\ log # <<>>
       /\ IF log[Len(log)].b = "return"
            THEN /\ Len(log) = Len(EntryChain)
                 /\ result = [k |-> "return", v |-> Compose(call.e, Len(EntryChain), call.args)]
            ELSE result = [k |-> "throw", v |-> UserError(log[Len(log)].w)]

\* C5: a chain of N >= 1 synchronous handlers without toolkit injection
\* returns synchronously h_N(...h_2(h_1(args))): h_1 receives all the call's
\* arguments, each later handler exactly the value of its predecessor, and
\* each handler runs once, in order.
C5_SyncChainIsComposition ==
  (call # NoCall /\ PlainChain /\ AsyncPositions = {}) => SyncChainIsComposition

\* C5, amended: the same, provided no control signal is in play (the first
\* argument is no StopPropagation value, no handler returns one or raises
\* Abort).
C5_SyncChainIsCompositionWithoutSignal ==
  (call # NoCall /\ PlainChain /\ AsyncPositions = {} /\ NoSignal) =>
    SyncChainIsComposition

C5_Witness ==
  /\ Over /\ PlainChain /\ AsyncPositions = {} /\ NoSignal /\ AllReturn
  /\ Len(EntryChain) >= 3
  /\ Len(call.args) = 2
  /\ Returned /\ result.v = Compose(call.e, Len(EntryChain), call.args)

\* C6: an error a user handler raises that is not a control signal reaches
\* the caller of the entry point unchanged, thrown or as the rejection of the
\* pending result; it is never turned into a normal result, and no handler
\* runs after it.
C6_ErrorReachesCallerUnchanged ==
  \A i \in Starts :
    (Over /\ Did(i, "error")) =>
      /\ GotException(UserError(log[i].w))
      /\ IF Handler(pipelines, log[i].w).user.async
           THEN \E r \in DOMAIN log :
                  /\ r > i
                  /\ log[r] = Event("settle", log[i].w, <<UserError(log[i].w)>>, "rejected")
                  /\ \A j \in Starts : j <= r
           ELSE \A j \in Starts : j <= i

\* C7: jumpTo of a name no pipeline registered raises a genuine error: it is
\* not raised as a Jump signal, not interpreted as one, and the caller of the
\* entry point gets an error that is no control signal.
C7_MissingJumpIsGenuineError ==
  /\ (ctl.op \in {"throw", "capture"} /\ ctl.v.t = jumpExceptionCode) => ctl.v.h # NoRef
  /\ \A i \in Starts :
       (Over /\ Did(i, "jump") /\ Target = NoRef) =>
         /\ result.k = "throw" \/ (ReturnedPending /\ ResultPromise.st = "rejected")
         /\ ~IsSignal(IF ReturnedPending THEN ResultPromise.v ELSE result.v)

\* C8: if plain handler k (the last position included) returns
\* stopPropagationWith(R), its chain resolves to R, never to the signal
\* object; no user handler after k of that chain runs; and when the chain is
\* a sequenceOf chain embedded in the entry chain, the entry chain's handler
\* after it still runs, receiving R.
C8_StopPropagationResolvesToPayload ==
  \A i \in Starts :
    (Over /\ Did(i, "stop")) =>
      LET w == log[i].w
          R == Payload(w)
      IN /\ ~GotValue(stopPropagationWith(R))
         /\ \A k \in DOMAIN pipelines[w[1]].handlers : k > w[2] => ~StartedAfter(i, <<w[1], k>>)
         /\ (InEntryChain(w) /\ PlainChain) => GotValue(R)
         /\ \A o \in DOMAIN EntryChain :
              ( /\ EntryChain[o].user.sub = w[1]
                /\ (o + 1) \in DOMAIN EntryChain
                /\ EntryChain[o + 1].user.sub = 0
                /\ \A m \in 1..o : ~EntryChain[m].user.injectToolkit /\ ~EntryChain[m].user.async ) =>
                \E j \in Starts : j > i /\ log[j].w = <<call.e, o + 1>> /\ log[j].args = <<R>>

\* The wrapped handlers built with name n.
Named(n) ==
  UNION { { <<p, k>> : k \in {m \in DOMAIN pipelines[p].handlers :
                                 pipelines[p].handlers[m].user.name = n} } :
          p \in DOMAIN pipelines }
Later(v, w) == v[1] > w[1] \/ (v[1] = w[1] /\ v[2] > w[2])
\* The handler most recently built with name n: pipelines are built one
\* after the other and a pipeline's handlers in order.
LastNamed(n) ==
  LET named == Named(n)
  IN IF named = {} THEN NoRef
     ELSE CHOOSE w \in named : \A v \in named : ~Later(v, w)

\* C9: the registry maps each name to the wrapped handler most recently built
\* with it, and every jump to the name, also one issued from a pipeline built
\* before the last registration, invokes that handler.
C9_LastRegistrationWins ==
  LET last == LastNamed("x")
  IN /\ \A n \in Names : globalHandlersByName[n] = LastNamed(n)
     /\ (ctl.v.t = jumpExceptionCode) => ctl.v.h = last
     /\ (ctl.op = "entry" /\ ctl.args # call.args) => ctl.w = last
     /\ \A i \in DOMAIN log :
          (log[i].e = "start" /\ log[i].b = "jump") =>
            \A j \in DOMAIN log :
              (log[j].e = "start" /\ log[j].args = JumpArgs(log[i].w)) => log[j].w = last

\* A jump issued from a pipeline built before the second registration of "x"
\* ran the second handler.
C9_Witness ==
  \E i \in Starts :
    /\ Did(i, "jump") /\ (i + 1) \in Starts
    /\ log[i + 1].args = JumpArgs(log[i].w)
    /\ Cardinality(Named("x")) >= 2
    /\ log[i].w[1] < log[i + 1].w[1]
    /\ \E w \in Named("x") : w[1] <= log[i].w[1]

\* C10: a chain built by sequenceOf does not interpret signals: when it is a
\* handler of the entry chain and one of its handlers raises Abort(R), the
\* entry point resolves to R and no handler, of the sub-chain or of the
\* entry chain, runs afterwards.
C10_SubChainAbortReachesOuterInterpreter ==
  \A i \in Starts :
    ( /\ Over /\ Did(i, "abort")
      /\ \E o \in DOMAIN EntryChain : EntryChain[o].user.sub = log[i].w[1] ) =>
      /\ GotValue(Payload(log[i].w))
      /\ \A j \in Starts : j <= i

\* Pipeline p is embedded as a handler of the entry chain.
SubOfEntry(p) == \E o \in DOMAIN EntryChain : EntryChain[o].user.sub = p

\* C11: when the entry chain holds no async handler of its own but embeds a
\* sequenceOf chain whose async handler raises Abort(R), the interpreter
\* captures the signal on the pending result: the caller gets R, never the
\* signal as a rejection.
C11_SubChainAsyncAbortIsCaptured ==
  \A i \in Starts :
    ( /\ Over /\ Did(i, "abort")
      /\ Handler(pipelines, log[i].w).user.async
      /\ SubOfEntry(log[i].w[1])
      /\ \A k \in DOMAIN EntryChain : ~EntryChain[k].isAsync ) =>
      /\ GotValue(Payload(log[i].w))
      /\ ~GotException(abortWith(Payload(log[i].w)))

\* Every handler of pipeline p is plain: a function or an embedded chain,
\* without toolkit injection.
PlainPipeline(p) == \A k \in DOMAIN pipelines[p].handlers : ~pipelines[p].handlers[k].user.injectToolkit

\* C12: in a chain of plain handlers, handler i+1 starts only after handler i
\* has completed and receives the completed value, never a pending result;
\* also when handler i is classified synchronous and returns a pending
\* result, as an embedded chain with an async handler does.  (A handler
\* that a jump starts has no predecessor to wait for: invocations without
\* a jump are considered.)
C12_SuccessorGetsCompletedValue ==
  \A j \in Starts :
    ( /\ PlainPipeline(log[j].w[1]) /\ log[j].w[2] > 1
      /\ \A i \in Starts : log[i].b # "jump" ) =>
      /\ \A k \in DOMAIN log[j].args : ~IsPromise(log[j].args[k])
      /\ Handler(pipelines, <<log[j].w[1], log[j].w[2] - 1>>).user.async =>
           \E r \in 1..(j - 1) :
             log[r] = Event("settle", <<log[j].w[1], log[j].w[2] - 1>>, log[j].args, "fulfilled")

\* The contagion rule on a `handlers` array: a handler is to be treated as
\* async exactly when it or a handler after it in the array is async.
Contagion(handlers) ==
  \A k \in DOMAIN handlers :
    handlers[k].shouldBeTreatAsAsync =
      (\E m \in DOMAIN handlers : m >= k /\ handlers[m].isAsync)

\* C13: after every add step the chain satisfies the contagion rule (every
\* handler before an async one has shouldBeTreatAsAsync = true, the handlers
\* after the last async one keep false), and an add step never resets a
\* handler's shouldBeTreatAsAsync to false.  Every array built (the arrays
\* after each add step of a longer build are among them) satisfies the rule,
\* and so does the array after one more add step.  (The states between
\* invocations are the states after a build; that an invocation leaves the
\* classification alone is C17.)
C13_ContagionAfterEveryAdd ==
  call = NoCall =>
  \A p \in DOMAIN pipelines :
    /\ Contagion(pipelines[p].handlers)
    /\ \A u \in OwnHandlers \cup SubChains(pipelines) :
         LET handlers == pipelines[p].handlers
             s == decorateHandler(u, handlers, globalHandlersByName, p)
         IN /\ Contagion(s.handlers)
            /\ Len(s.handlers) = Len(handlers) + 1
            /\ \A k \in DOMAIN handlers :
                 /\ handlers[k].shouldBeTreatAsAsync => s.handlers[k].shouldBeTreatAsAsync
                 /\ s.handlers[k].isAsync = handlers[k].isAsync

\* A chain [sync, async, sync] was built: the first handler is marked, the
\* last is not.
C13_Witness ==
  \E p \in DOMAIN pipelines :
    LET handlers == pipelines[p].handlers
    IN /\ Len(handlers) = 3
       /\ ~handlers[1].isAsync /\ handlers[1].shouldBeTreatAsAsync
       /\ handlers[2].isAsync
       /\ ~handlers[3].isAsync /\ ~handlers[3].shouldBeTreatAsAsync

\* The reads of toolkit.next and toolkit.abort made so far.
ToolkitReads == {r \in DOMAIN log : log[r].e \in {"next", "abort"}}
\* The start of the latest invocation of the reading handler before read r.
StartOf(j, w) == log[j].e = "start" /\ log[j].w = w
LatestStart(r) ==
  CHOOSE j \in 1..(r - 1) :
    /\ StartOf(j, log[r].w)
    /\ \A m \in (j + 1)..(r - 1) : ~StartOf(m, log[r].w)
\* Between the start of the invocation that makes read r and the read,
\* another invocation of the same wrapped handler started.
Overlapped(r) == \E j \in (log[r].s + 1)..(r - 1) : StartOf(j, log[r].w)

\* C14: the toolkit of a wrapped handler is one slot for all its invocations.
\* A read of toolkit.next or toolkit.abort by an invocation uses the arguments
\* of the invocation of the same wrapped handler that started last: its own
\* when no other started in between, the other's when one did.  The successor
\* is called with those arguments, and abort raises Abort of the first of
\* them.
C14_ToolkitIsOneSlot ==
  \A r \in ToolkitReads :
    /\ log[r].s \in 1..(r - 1) /\ StartOf(log[r].s, log[r].w)
    /\ log[r].args = IF Overlapped(r) THEN log[LatestStart(r)].args
                     ELSE log[log[r].s].args
    /\ (log[r].e = "next" /\ nextHandler(pipelines, log[r].w) # NoRef /\ r < Len(log)) =>
         /\ log[r + 1].e = "start"
         /\ log[r + 1].w = nextHandler(pipelines, log[r].w)
         /\ log[r + 1].args = log[r].args
    /\ (log[r].e = "abort" /\ r < Len(log)) =>
         log[r + 1] = Event("settle", log[r].w, <<abortWith(log[r].args[1])>>, "rejected")

\* A handler was invoked twice before its first invocation read toolkit.abort:
\* the read used the arguments of the second invocation, which differ from
\* its own; and a read without an overlapping invocation used the reader's
\* own arguments for the successor.
C14_Witness ==
  /\ \E r \in ToolkitReads :
       /\ log[r].e = "abort"
       /\ Overlapped(r)
       /\ log[r].args # log[log[r].s].args
       /\ log[r].args = log[LatestStart(r)].args
       /\ r < Len(log)
  /\ \E r \in ToolkitReads :
       /\ log[r].e = "next" /\ ~Overlapped(r)
       /\ log[r].args = log[log[r].s].args
       /\ r < Len(log) /\ log[r + 1].e = "start"

\* The calls of toolkit.nextWith made so far, those a read of toolkit.next
\* makes included.
NextCalls == {r \in DOMAIN log : log[r].e \in {"next", "nextWith"}}

\* nextWith(args) invokes the wrapped handler at the next position of the
\* caller's chain with args.
NextWithCallsSuccessor ==
  \A r \in NextCalls :
    (nextHandler(pipelines, log[r].w) # NoRef /\ r < Len(log)) =>
      /\ log[r + 1].e = "start"
      /\ log[r + 1].w = <<log[r].w[1], log[r].w[2] + 1>>
      /\ log[r + 1].args = log[r].args

\* nextWith returns the successor's result, and null when there is none: an
\* entry chain of a toolkit-injected handler that returns what the call
\* returns, alone or followed by one plain function, gives that to the caller.
NextWithReturnsResult ==
  ( /\ Over /\ log # <<>> /\ Len(EntryChain) <= 2
    /\ EntryChain[1].user.injectToolkit
    /\ log[1].b \in {"next", "twice"}
    /\ \A i \in Starts : i > 1 => (~Handler(pipelines, log[i].w).user.injectToolkit /\ log[i].b = "return") ) =>
    GotValue(IF Len(EntryChain) = 1 THEN Null
             ELSE Apply(<<call.e, 2>>,
                        IF log[1].b = "next" THEN call.args ELSE NextArgs(<<call.e, 1>>)))

\* C15: for a toolkit-injected handler at position p, nextWith(args) invokes
\* exactly the wrapped handler at p+1 with args and returns its result, null
\* when there is no handler at p+1; and reading next is nextWith applied to
\* the arguments the reading invocation was started with.
C15_NextWithCallsSuccessor ==
  /\ NextWithCallsSuccessor
  /\ NextWithReturnsResult
  /\ \A r \in NextCalls : log[r].e = "next" => log[r].args = log[log[r].s].args

\* C15, amended: the same, reading next being nextWith applied to the
\* arguments of the invocation of the same wrapped handler that started last
\* (the reader's own when no invocation of it overlaps).
C15_NextUsesLatestInvocation ==
  /\ NextWithCallsSuccessor
  /\ NextWithReturnsResult
  /\ \A r \in NextCalls :
       log[r].e = "next" =>
         log[r].args = IF Overlapped(r) THEN log[LatestStart(r)].args
                       ELSE log[log[r].s].args

\* An async handler read toolkit.next and then returned toolkit.nextWith(N):
\* its plain successor ran twice, with the call's arguments and with N, and
\* the caller got the successor's value for N.
C15_Witness ==
  /\ Over /\ Len(EntryChain) = 2
  /\ Len(log) >= 5
  /\ log[1].b = "twice"
  /\ log[3].e = "start" /\ log[3].w = <<call.e, 2>> /\ log[3].args = call.args
  /\ log[4].e = "nextWith"
  /\ log[5].e = "start" /\ log[5].w = <<call.e, 2>> /\ log[5].args = NextArgs(<<call.e, 1>>)
  /\ GotValue(Apply(<<call.e, 2>>, NextArgs(<<call.e, 1>>)))

\* Value v is a control signal the caller got as an exception.
SignalEscaped ==
  \/ result.k = "throw" /\ IsSignal(result.v)
  \/ ReturnedPending /\ ResultPromise.st = "rejected" /\ IsSignal(ResultPromise.v)

\* C16: signals raised while a jump target runs are resolved by the
\* interpreter that wraps the target.  When the last handler started is a
\* jump target started with the jump's arguments, the caller gets R if it
\* raises Abort(R) and its return value if it returns as the last handler of
\* its chain, the target's chain being synchronous or asynchronous; and once
\* a jump target has started no control signal reaches the caller.
C16_SignalsInJumpTargetAreResolved ==
  \A i, j \in Starts :
    ( /\ Over /\ Did(i, "jump") /\ j > i
      /\ log[j].w = Target /\ log[j].args = JumpArgs(log[i].w) ) =>
      /\ ~SignalEscaped
      /\ (LastStart(j) /\ log[j].b = "abort") => GotValue(Payload(Target))
      /\ (LastStart(j) /\ log[j].b = "return" /\ nextHandler(pipelines, Target) = NoRef) =>
           GotValue(Apply(Target, log[j].args))

\* The classification of every wrapped handler: its __meta__.
Classification ==
  [p \in DOMAIN pipelines |->
     [k \in DOMAIN pipelines[p].handlers |->
        <<pipelines[p].handlers[k].isAsync, pipelines[p].handlers[k].shouldBeTreatAsAsync>>]]

\* C17: the registry is written only while a pipeline is built.  No step of
\* an invocation (the call of an entry point, of a wrapped handler, of a
\* user handler with its toolkit calls, of the interpreter, of a promise
\* job) changes the registry or the classification of a handler; a step that
\* changes the registry builds a pipeline.
C17_InvocationsLeaveRegistry ==
  [][ /\ (call # NoCall \/ call' # NoCall) =>
           /\ globalHandlersByName' = globalHandlersByName
           /\ Classification' = Classification
      /\ globalHandlersByName' # globalHandlersByName =>
           /\ call = NoCall /\ call' = NoCall
           /\ Len(pipelines') = Len(pipelines) + 1 ]_vars

\* An invocation is over in which a toolkit-injected handler jumped to the
\* registered "x", the target ran, and a toolkit was set up.
C17_Witness ==
  /\ Over /\ Target # NoRef
  /\ \E i, j \in Starts :
       /\ Did(i, "jump") /\ j > i /\ log[j].w = Target
       /\ Handler(pipelines, log[i].w).toolkitArgs # <<>>

\* The wrapped handler before w in w's chain.
Previous(w) == <<w[1], w[2] - 1>>
\* Start j is the start of a jump's target.
JumpStart(j) ==
  /\ log[j].w = Target
  /\ \E i \in 1..(j - 1) :
       log[i].e = "start" /\ log[i].b = "jump" /\ log[j].args = JumpArgs(log[i].w)

\* C18: a toolkit-injected handler is never followed automatically by its
\* successor.  The successor of a toolkit-injected handler starts only as
\* the next thing after a call of nextWith (a read of next included) by that
\* handler, with the call's arguments, and each such call starts it once: it
\* runs exactly as many times as its predecessor calls.  A handler after a
\* plain one starts only after the plain one did.  (The target of a jump is
\* started by the interpreter, whatever its position.)  When a toolkit-injected
\* handler returns without calling, after plain handlers that returned, no
\* handler runs afterwards and its return value is what the caller gets.
C18_ToolkitHandlerIsNotFollowed ==
  /\ \A j \in Starts :
       (log[j].w[2] > 1 /\ ~JumpStart(j)) =>
         IF Handler(pipelines, Previous(log[j].w)).user.injectToolkit
           THEN /\ j > 1
                /\ log[j - 1].e \in {"next", "nextWith"}
                /\ log[j - 1].w = Previous(log[j].w)
                /\ log[j - 1].args = log[j].args
           ELSE \/ Handler(pipelines, Previous(log[j].w)).user.sub # 0
                \/ \E i \in 1..(j - 1) : StartOf(i, Previous(log[j].w))
  /\ \A r \in NextCalls :
       (nextHandler(pipelines, log[r].w) # NoRef /\ r < Len(log)) =>
         /\ log[r + 1].e = "start"
         /\ Previous(log[r + 1].w) = log[r].w
  /\ \A i \in Starts :
       ( /\ Over /\ Did(i, "return")
         /\ Handler(pipelines, log[i].w).user.injectToolkit
         /\ \A m \in Starts : m < i =>
              (~Handler(pipelines, log[m].w).user.injectToolkit /\ log[m].b = "return") ) =>
         /\ \A m \in DOMAIN log : m > i => log[m].e = "settle"
         /\ GotValue(Apply(log[i].w, log[i].args))

\* A toolkit-injected handler with a successor returned without calling it:
\* the successor never ran and the caller got the handler's value.
C18_Witness ==
  /\ Over
  /\ Len(EntryChain) >= 2
  /\ EntryChain[1].user.injectToolkit
  /\ Cardinality(Starts) = 1
  /\ Did(1, "return")
  /\ GotValue(Apply(<<call.e, 1>>, call.args))

\* The handlers from the jump target to the end of its chain are functions
\* the application wrote, without toolkit injection.
PlainFromTarget ==
  \A k \in DOMAIN pipelines[Target[1]].handlers :
    k >= Target[2] =>
      /\ ~Handler(pipelines, <<Target[1], k>>).user.injectToolkit
      /\ Handler(pipelines, <<Target[1], k>>).user.sub = 0

\* The value of the handlers w[2]..k of chain w[1], the first called with args.
RECURSIVE ComposeFrom(_, _, _)
ComposeFrom(w, k, args) ==
  IF k = w[2] THEN Apply(w, args)
  ELSE Apply(<<w[1], k>>, <<ComposeFrom(w, k - 1, args)>>)

\* C19: a registered name resolves to the wrapped handler at the position of
\* the chain that declared it.  When a jump starts "x" and "x" returns, the
\* handler after "x" in x's chain runs with x's value; when the handlers from
\* "x" to the end of its chain are plain and return, each runs with the value
\* of the one before, and the caller gets the value of the last of them, not
\* that of "x" alone.
C19_JumpRunsRestOfTargetChain ==
  /\ Target # NoRef =>
       /\ Target[1] \in DOMAIN pipelines
       /\ Target[2] \in DOMAIN pipelines[Target[1]].handlers
       /\ Handler(pipelines, Target).user.name = "x"
  /\ (Over /\ Target # NoRef) =>
       \A j \in Starts :
         JumpStart(j) =>
           LET N == Len(pipelines[Target[1]].handlers)
           IN /\ ( /\ log[j].b = "return"
                   /\ nextHandler(pipelines, Target) # NoRef
                   /\ Handler(pipelines, nextHandler(pipelines, Target)).user.sub = 0 ) =>
                   \E m \in (j + 1)..Len(log) :
                     /\ StartOf(m, nextHandler(pipelines, Target))
                     /\ log[m].args = <<Apply(Target, log[j].args)>>
              /\ (PlainFromTarget /\ \A m \in Starts : m >= j => log[m].b = "return") =>
                   /\ \A k \in (Target[2] + 1)..N :
                        \E m \in (j + 1)..Len(log) :
                          /\ StartOf(m, <<Target[1], k>>)
                          /\ log[m].args = <<ComposeFrom(Target, k - 1, log[j].args)>>
                   /\ GotValue(ComposeFrom(Target, N, log[j].args))

\* A jump started "x", which has a successor in its chain: the successor ran
\* with x's value and the caller got the successor's value.
C19_Witness ==
  /\ Over /\ Target # NoRef /\ PlainFromTarget
  /\ nextHandler(pipelines, Target) # NoRef
  /\ \E j, m \in Starts :
       /\ JumpStart(j) /\ m > j /\ LastStart(m)
       /\ log[m].w = nextHandler(pipelines, Target)
       /\ log[m].args = <<Apply(Target, log[j].args)>>
       /\ GotValue(Apply(log[m].w, log[m].args))
       /\ ~GotValue(Apply(Target, log[j].args))

====
